---- MODULE Spec2Model ----
(***************************************************************************)
(* A model of vcf_parser.py: the variant normaliser (parse_vcf_entry), the *)
(* annotation client (query_ensembl), the row projection                   *)
(* (extract_csv_fields) and the pipeline (main).                           *)
(*                                                                         *)
(* Python objects are tagged values, so that a mapping may hold values of  *)
(* different types as a Python dict does:                                  *)
(*   PStr(s)  a str            PInt(n)  an int         PNone   None        *)
(*   PList(l) a list (a TLA+ sequence of values)                           *)
(*   PDict(items) a dict, given as the sequence of its <<key, value>>      *)
(*            pairs in insertion order: .k is the sequence of its keys in  *)
(*            that order, .d the function from its keys to their values    *)
(* An operation that raises yields Raise(name) in place of its value.      *)
(***************************************************************************)
EXTENDS Integers, Sequences, FiniteSets, TLC

VARIABLES
    records,        \* the input file: the sequence of decoded records
    idx,            \* how many records the for-loop has taken from vcf_reader
    pc,             \* main's position
    record,         \* main's loop variable
    vcf_data,       \* main's local
    ensembl_data,   \* main's local
    all_data,       \* main's local: the accumulated merged entries
    requests,       \* every HTTP POST issued so far: [url, headers, json]
    responses,      \* what the remote service did with each of them
    pkl_file,       \* the binary dump at output_pkl
    csv_file,       \* the text file at output_csv
    csv_pos,        \* how many entries the final for-loop has written
    halt,           \* how the run stopped early, if it did
    entry,          \* extract_csv_fields' argument (function-level runs)
    row             \* extract_csv_fields' outcome  (function-level runs)

vars == <<records, idx, pc, record, vcf_data, ensembl_data, all_data, requests,
          responses, pkl_file, csv_file, csv_pos, halt, entry, row>>

-----------------------------------------------------------------------------
(* Python values *)

PStr(s) == [t |-> "str", s |-> s]
PInt(n) == [t |-> "int", n |-> n]
PList(l) == [t |-> "list", l |-> l]
PDict(items) ==
    [t |-> "dict",
     k |-> [i \in 1..Len(items) |-> items[i][1]],
     d |-> [key \in {items[i][1] : i \in 1..Len(items)} |->
               items[CHOOSE i \in 1..Len(items) : items[i][1] = key][2]]]
PNone == [t |-> "none"]
Raise(e) == [t |-> "raise", e |-> e]

IsRaise(v) == v.t = "raise"

EmptyDict == PDict(<<>>)

\* bool(v)
Truthy(v) ==
    CASE v.t = "str" -> v.s # ""
      [] v.t = "int" -> v.n # 0
      [] v.t = "list" -> Len(v.l) > 0
      [] v.t = "dict" -> DOMAIN v.d # {}
      [] OTHER -> FALSE

\* d.get(key, default) on a mapping d (a TLA+ function)
DictGet(d, key, default) == IF key \in DOMAIN d THEN d[key] ELSE default

\* v.get(key, default) on any value: only a dict has the attribute
AttrGet(v, key, default) ==
    IF v.t = "dict" THEN DictGet(v.d, key, default) ELSE Raise("AttributeError")

\* {**a, **b} on two dicts: a's keys keep their places, b's new keys follow,
\* and b's values win
MergeDicts(a, b) ==
    [t |-> "dict",
     k |-> a.k \o SelectSeq(b.k, LAMBDA key : key \notin DOMAIN a.d),
     d |-> [key \in DOMAIN a.d \cup DOMAIN b.d |->
               IF key \in DOMAIN b.d THEN b.d[key] ELSE a.d[key]]]

\* The mutant of StrContains: a prefix test (str.startswith)
StrStartsWith(needle, hay) ==
    Len(hay) >= Len(needle) /\ SubSeq(hay, 1, Len(needle)) = needle

\* needle in hay, for two str
StrContains(needle, hay) ==
    \E i \in 1..(Len(hay) - Len(needle) + 1) :
        SubSeq(hay, i, i + Len(needle) - 1) = needle

\* str(v) as an f-string or csv.writer renders it, for str and int
PyStr(v) ==
    CASE v.t = "str" -> v.s
      [] v.t = "int" -> ToString(v.n)
      [] v.t = "none" -> "None"

-----------------------------------------------------------------------------
(* parse_vcf_entry *)

\* The mutant of parse_vcf_entry: the last alternate allele instead of the first
parse_vcf_entry_last_alt(e) ==
    IF Len(e.ALT) = 0 THEN Raise("IndexError")
    ELSE PDict(<<<<"chrom", PStr(e.CHROM)>>, <<"pos", PInt(e.POS)>>,
                 <<"ref", PStr(e.REF)>>, <<"alt", PStr(e.ALT[Len(e.ALT)])>>>>)

\* e is a decoded record [CHROM, POS, REF, ALT]; ALT[0] on an empty list raises
parse_vcf_entry(e) ==
    IF Len(e.ALT) = 0 THEN Raise("IndexError")
    ELSE PDict(<<<<"chrom", PStr(e.CHROM)>>, <<"pos", PInt(e.POS)>>,
                 <<"ref", PStr(e.REF)>>, <<"alt", PStr(e.ALT[1])>>>>)

-----------------------------------------------------------------------------
(* Arithmetic of extract_csv_fields' percentages *)

Abs(n) == IF n < 0 THEN -n ELSE n

\* a - b
Sub(a, b) ==
    IF IsRaise(a) THEN a
    ELSE IF IsRaise(b) THEN b
    ELSE IF a.t = "int" /\ b.t = "int" THEN PInt(a.n - b.n)
    ELSE Raise("TypeError")

\* a / b: true division. The float is kept as the exact quotient num/den.
TrueDiv(a, b) ==
    IF IsRaise(a) THEN a
    ELSE IF IsRaise(b) THEN b
    ELSE IF a.t = "int" /\ b.t = "int"
         THEN IF b.n = 0 THEN Raise("ZeroDivisionError")
              ELSE [t |-> "float", num |-> a.n, den |-> b.n]
    ELSE Raise("TypeError")

(* Natural numbers of any size: sequences of 15-bit limbs, lowest limb first.
   They carry the 53-bit arithmetic of Python's float. *)

\* the element of a one-element set: The({F(v) : v \in {e}}) is F(e), with e
\* evaluated once however often F uses it
The(S) == CHOOSE v \in S : TRUE

LimbBits == 15

Limb == 2^LimbBits

RECURSIVE BigOf(_)
BigOf(n) == IF n = 0 THEN <<>> ELSE <<n % Limb>> \o BigOf(n \div Limb)

BigLimb(x, i) == IF i \in 1..Len(x) THEN x[i] ELSE 0

RECURSIVE BigAdd(_, _, _)
BigAdd(x, y, carry) ==
    IF x = <<>> /\ y = <<>> THEN (IF carry = 0 THEN <<>> ELSE <<carry>>)
    ELSE The({<<s % Limb>>
                  \o BigAdd(IF x = <<>> THEN <<>> ELSE Tail(x),
                            IF y = <<>> THEN <<>> ELSE Tail(y),
                            s \div Limb) :
              s \in {BigLimb(x, 1) + BigLimb(y, 1) + carry}})

RECURSIVE BigMulSmall(_, _, _)
\* x * c + carry, for c and carry below Limb
BigMulSmall(x, c, carry) ==
    IF x = <<>> THEN (IF carry = 0 THEN <<>> ELSE <<carry>>)
    ELSE The({<<s % Limb>> \o BigMulSmall(Tail(x), c, s \div Limb) :
              s \in {Head(x) * c + carry}})

RECURSIVE BigMul(_, _)
BigMul(x, y) ==
    IF y = <<>> THEN <<>>
    ELSE The({BigAdd(low, <<0>> \o high, 0) :
              low \in {BigMulSmall(x, Head(y), 0)}, high \in {BigMul(x, Tail(y))}})

\* -1, 0 or 1 as x is below, equal to or above y
BigCmp(x, y) ==
    LET n == IF Len(x) < Len(y) THEN Len(y) ELSE Len(x)
    IN  IF \A i \in 1..n : BigLimb(x, i) = BigLimb(y, i) THEN 0
        ELSE LET i == CHOOSE i \in 1..n :
                         /\ BigLimb(x, i) # BigLimb(y, i)
                         /\ \A j \in (i + 1)..n : BigLimb(x, j) = BigLimb(y, j)
             IN  IF BigLimb(x, i) < BigLimb(y, i) THEN -1 ELSE 1

\* bit j of x, the lowest being bit 0
BigBit(x, j) == (BigLimb(x, j \div LimbBits + 1) \div 2^(j % LimbBits)) % 2

\* the number of bits of x up to its highest 1
BigBitLen(x) ==
    IF \A i \in 1..Len(x) : x[i] = 0 THEN 0
    ELSE The({(i - 1) * LimbBits
                  + (CHOOSE b \in 1..LimbBits : 2^(b - 1) <= x[i] /\ x[i] < 2^b) :
              i \in {CHOOSE i \in 1..Len(x) :
                        x[i] # 0 /\ \A j \in (i + 1)..Len(x) : x[j] = 0}})

\* floor(x / 2^s)
BigShiftRight(x, s) ==
    LET w == s \div LimbBits
        b == s % LimbBits
    IN  [i \in 1..(Len(x) - w) |->
            BigLimb(x, i + w) \div 2^b
            + (BigLimb(x, i + w + 1) % 2^b) * 2^(LimbBits - b)]

\* x * 2^s
BigShiftLeft(x, s) ==
    LET w == s \div LimbBits
        b == s % LimbBits
    IN  [i \in 1..w |-> 0]
        \o [i \in 1..(Len(x) + 1) |->
               (BigLimb(x, i) % 2^(LimbBits - b)) * 2^b
               + BigLimb(x, i - 1) \div 2^(LimbBits - b)]

\* x rounded to 53 significant bits, ties to even (IEEE 754 binary64): the
\* mantissa m and the number s of bits dropped; sticky tells that the number
\* rounded lies above x by less than one
BigRound53(x, sticky) ==
    The({IF n <= 53 THEN [m |-> x, s |-> 0]
         ELSE The({LET up == /\ BigBit(x, n - 54) = 1
                             /\ \/ sticky
                                \/ BigBit(kept, 0) = 1
                                \/ \E j \in 0..(n - 55) : BigBit(x, j) = 1
                   IN  [m |-> IF up THEN BigAdd(kept, <<1>>, 0) ELSE kept,
                        s |-> n - 53] :
                   kept \in {BigShiftRight(x, n - 53)}}) :
         n \in {BigBitLen(x)}})

\* one step of MulDivMod: h is the result for half the factor (rounded down)
MulDivModStep(h, r, odd, d) ==
    LET dbl == IF h.r >= d - h.r
               THEN [q |-> 2 * h.q + 1, r |-> h.r - (d - h.r)]
               ELSE [q |-> 2 * h.q, r |-> h.r + h.r]
    IN  IF ~odd THEN dbl
        ELSE IF dbl.r >= d - r
             THEN [q |-> dbl.q + 1, r |-> dbl.r - (d - r)]
             ELSE [q |-> dbl.q, r |-> dbl.r + r]

RECURSIVE MulDivMod(_, _, _)
\* floor(r * k / d) and the remainder of r * k by d, for 0 <= r < d, computed
\* by doubling so that no intermediate value exceeds d
MulDivMod(r, k, d) ==
    IF k = 0 THEN [q |-> 0, r |-> 0]
    ELSE The({MulDivModStep(h, r, k % 2 = 1, d) : h \in {MulDivMod(r, k \div 2, d)}})

\* limbs of r / d kept behind the point: enough for 53 bits of any quotient of
\* two 32-bit counts
FracLimbs == 7

RECURSIVE FracOf(_, _, _)
\* the first n limbs of r / d behind the point (0 <= r < d), lowest first, and
\* the remainder left
FracOf(r, d, n) ==
    IF n = 0 THEN [limbs |-> <<>>, rem |-> r]
    ELSE The({The({[limbs |-> rest.limbs \o <<h.q>>, rem |-> rest.rem] :
                   rest \in {FracOf(h.r, d, n - 1)}}) :
              h \in {MulDivMod(r, Limb, d)}})

\* The float a / d, for a, d > 0: the quotient to FracLimbs limbs behind the
\* point, correctly rounded. It is m * 2^s / Limb^FracLimbs.
FloatQuotient(a, d) ==
    The({The({BigRound53(t, frac.rem # 0) : t \in {frac.limbs \o BigOf(a \div d)}}) :
         frac \in {FracOf(a % d, d, FracLimbs)}})

\* The float x * 100 for the float x, as m * 2^s / Limb^FracLimbs: the product
\* is rounded again
FloatTimes100(x) ==
    The({The({[m |-> y.m, s |-> x.s + y.s] : y \in {BigRound53(p, FALSE)}}) :
         p \in {BigMulSmall(x.m, 100, 0)}})

\* The float a / d * 100 against the exact quotient 100 * a / d, for a, d > 0:
\* -1, 0 or 1 as the float is below it, equal to it or above it
FloatPercentCmp(a, d) ==
    The({The({The({BigCmp(BigShiftLeft(scaled, y.s),
                          BigShiftLeft(exact, FracLimbs * LimbBits)) :
                   scaled \in {BigMul(y.m, BigOf(d))},
                   exact \in {BigMulSmall(BigOf(a), 100, 0)}}) :
              y \in {FloatTimes100(x)}}) :
         x \in {FloatQuotient(a, d)}})

\* round(num / den * 100, 2) without its sign, as
\* hundreds * 100 + units + cents / 100 (units and cents in 0..99).
\* The quotient 100 * num / den is cut after two decimals; what is left decides
\* the direction, and when it is exactly a half (x.xx5) the float decides:
\* round() rounds the float's own value, which lies below, on or above the
\* quotient, and takes the even neighbour only when it lies on it.
RoundHundredths(num, den) ==
    LET a == Abs(num)
        d == Abs(den)
    IN  The({The({The({[hundreds |-> IF c.q + up = 100 /\ u.q = 99
                                     THEN a \div d + 1 ELSE a \div d,
                        units |-> IF c.q + up = 100 THEN (u.q + 1) % 100 ELSE u.q,
                        cents |-> (c.q + up) % 100] :
                       up \in {IF c.r > d - c.r THEN 1
                               ELSE IF c.r < d - c.r THEN 0
                               ELSE IF FloatPercentCmp(a, d) = 1 THEN 1
                               ELSE IF FloatPercentCmp(a, d) = 0 THEN c.q % 2
                               ELSE 0}}) :
                  c \in {MulDivMod(u.r, 100, d)}}) :
             u \in {MulDivMod(a % d, 100, d)}})

\* str() of a float with at most two decimals: "25.0", "12.5", "33.33", "0.07"
FloatText(negative, p) ==
    LET whole == IF p.hundreds = 0 THEN ToString(p.units)
                 ELSE ToString(p.hundreds)
                      \o (IF p.units < 10 THEN "0" ELSE "") \o ToString(p.units)
        digits == IF p.cents % 10 = 0 THEN ToString(p.cents \div 10)
                  ELSE IF p.cents < 10 THEN "0" \o ToString(p.cents)
                  ELSE ToString(p.cents)
    IN  (IF negative THEN "-" ELSE "") \o whole \o "." \o digits

\* str(round(x * 100, 2)) for the float x = a / b
PercentStr(x) ==
    IF IsRaise(x) THEN x
    ELSE The({PStr(FloatText((x.num < 0) # (x.den < 0), p)) :
              p \in {RoundHundredths(x.num, x.den)}})

-----------------------------------------------------------------------------
(* extract_csv_fields *)

\* entry.get('INFO').get(key, '') if 'INFO' in entry else ''
InfoField(e, key) ==
    IF "INFO" \in DOMAIN e THEN AttrGet(e["INFO"], key, PStr("")) ELSE PStr("")

\* The mutant of PercentGate: the depth is not tested
PercentGateAltOnly(depth, alt_reads) == Truthy(alt_reads)

\* the condition "depth and alt_reads"
PercentGate(depth, alt_reads) == Truthy(depth) /\ Truthy(alt_reads)

\* v[0]
First(v) ==
    CASE v.t = "list" -> IF Len(v.l) = 0 THEN Raise("IndexError") ELSE v.l[1]
      [] v.t = "str" -> IF v.s = "" THEN Raise("IndexError") ELSE PStr(SubSeq(v.s, 1, 1))
      [] v.t = "dict" -> Raise("KeyError")
      [] OTHER -> Raise("TypeError")

RECURSIVE JoinStrs(_, _)
\* sep.join(l) for a sequence l of str values
JoinStrs(sep, l) ==
    IF Len(l) = 0 THEN ""
    ELSE IF Len(l) = 1 THEN l[1].s
    ELSE l[1].s \o sep \o JoinStrs(sep, Tail(l))

\* ', '.join(v): v must be an iterable of str; a str iterates its characters,
\* a dict its keys in insertion order
JoinTerms(v) ==
    CASE IsRaise(v) -> v
      [] v.t = "list" ->
            IF \A i \in 1..Len(v.l) : v.l[i].t = "str"
            THEN PStr(JoinStrs(", ", v.l)) ELSE Raise("TypeError")
      [] v.t = "str" ->
            PStr(JoinStrs(", ", [i \in 1..Len(v.s) |-> PStr(SubSeq(v.s, i, i))]))
      [] v.t = "dict" ->
            PStr(JoinStrs(", ", [i \in 1..Len(v.k) |-> PStr(v.k[i])]))
      [] OTHER -> Raise("TypeError")

\* 'COSV' in id
InId(needle, id) ==
    CASE id.t = "str" -> StrContains(needle, id.s)
      [] id.t = "list" -> \E i \in 1..Len(id.l) : id.l[i] = PStr(needle)
      [] id.t = "dict" -> needle \in DOMAIN id.d
      [] OTHER -> FALSE

\* whether "needle in v" raises: None and numbers are not iterable
InRaises(v) == v.t \notin {"str", "list", "dict"}

RECURSIVE FirstRaise(_)
\* the first exception in evaluation order, or PNone when nothing raises
FirstRaise(steps) ==
    IF Len(steps) = 0 THEN PNone
    ELSE IF IsRaise(Head(steps)) THEN Head(steps)
    ELSE FirstRaise(Tail(steps))

\* The locals of extract_csv_fields, in the order the code evaluates them
ExtractLocals(e) ==
    LET chrom == DictGet(e, "chrom", PStr(""))
        pos == DictGet(e, "pos", PStr(""))
        ref == DictGet(e, "ref", PStr(""))
        alt == DictGet(e, "alt", PStr(""))
        depth == InfoField(e, "DP")
        alt_reads == InfoField(e, "AO")
        gated == PercentGate(depth, alt_reads)
        percent_alt_reads ==
            IF gated THEN PercentStr(TrueDiv(alt_reads, depth)) ELSE PStr("")
        percent_ref_reads ==
            IF gated THEN PercentStr(TrueDiv(Sub(depth, alt_reads), depth))
            ELSE PStr("")
        has_tc == "transcript_consequences" \in DOMAIN e
                  /\ Truthy(e["transcript_consequences"])
        tc0 == First(e["transcript_consequences"])
        gene == IF ~has_tc THEN PStr("")
                ELSE IF IsRaise(tc0) THEN tc0
                ELSE AttrGet(tc0, "gene_symbol", PStr(""))
        variant_effect ==
            IF ~has_tc THEN PStr("")
            ELSE IF IsRaise(tc0) THEN tc0
            ELSE JoinTerms(AttrGet(tc0, "consequence_terms", PList(<<>>)))
        minor_allele == InfoField(e, "MA")
        minor_allele_frequency == InfoField(e, "MAF")
        id == DictGet(e, "id", PStr(""))
        somatic == IF InRaises(id) THEN Raise("TypeError")
                   ELSE IF InId("COSV", id) THEN PStr("1") ELSE PStr("")
    IN  [chrom |-> chrom, pos |-> pos, ref |-> ref, alt |-> alt,
         depth |-> depth, alt_reads |-> alt_reads,
         percent_alt_reads |-> percent_alt_reads,
         percent_ref_reads |-> percent_ref_reads,
         gene |-> gene, variant_effect |-> variant_effect,
         minor_allele |-> minor_allele,
         minor_allele_frequency |-> minor_allele_frequency,
         id |-> id, somatic |-> somatic]

\* write_to_csv's fieldnames and main's header row: the 14 columns in order
fieldnames ==
    <<"chrom", "pos", "ref", "alt", "depth", "alt_reads", "percent_alt_reads",
      "percent_ref_reads", "gene", "variant_effect", "minor_allele",
      "minor_allele_frequency", "somatic", "id">>

\* The order in which extract_csv_fields evaluates its locals (id before somatic)
EvalOrder ==
    <<"chrom", "pos", "ref", "alt", "depth", "alt_reads", "percent_alt_reads",
      "percent_ref_reads", "gene", "variant_effect", "minor_allele",
      "minor_allele_frequency", "id", "somatic">>

\* extract_csv_fields(entry): the list of 14 values, or the exception raised
extract_csv_fields(e) ==
    LET loc == ExtractLocals(e)
        err == FirstRaise([i \in 1..Len(EvalOrder) |-> loc[EvalOrder[i]]])
    IN  IF IsRaise(err) THEN err
        ELSE PList([i \in 1..Len(fieldnames) |-> loc[fieldnames[i]]])

-----------------------------------------------------------------------------
(* query_ensembl *)

url == "http://grch37.rest.ensembl.org/vep/human/region"

headers == PDict(<<<<"Content-Type", PStr("application/json")>>>>)

\* The mutant of adjusted_position: the position is sent as it is
adjusted_position_unchanged(variant) == variant["pos"]

\* variant['pos'] + 1
adjusted_position(variant) == PInt(variant["pos"].n + 1)

\* f"{variant['chrom']}:{adjusted_position}:{variant['ref']}:{variant['alt']}"
spdi_notation(variant) ==
    PyStr(variant["chrom"]) \o ":" \o PyStr(adjusted_position(variant)) \o ":"
        \o PyStr(variant["ref"]) \o ":" \o PyStr(variant["alt"])

\* {"variants": [spdi_notation]}
payload(variant) ==
    PDict(<<<<"variants", PList(<<PStr(spdi_notation(variant))>>)>>>>)

\* The mutant of QueryResult: the body is returned whatever the status
QueryResultAnyStatus(outcome) ==
    IF outcome.kind = "raise" THEN EmptyDict
    ELSE IF IsRaise(outcome.json) THEN EmptyDict
    ELSE outcome.json

\* The mutant of QueryResult: every answer degrades to the empty mapping
QueryResultAlwaysEmpty(outcome) == EmptyDict

\* What requests.post and response.json() do with one request:
\*   [kind |-> "raise"]                          requests.post raises
\*   [kind |-> "response", status, json]         a response; json is the parsed
\*                                               body, or Raise(..) when the body
\*                                               is not JSON and .json() raises
\* The value query_ensembl returns for such an outcome: the try block of the code.
QueryResult(outcome) ==
    IF outcome.kind = "raise" THEN EmptyDict                    \* except Exception
    ELSE IF outcome.status = 200
         THEN IF IsRaise(outcome.json) THEN EmptyDict           \* except Exception
              ELSE outcome.json
    ELSE EmptyDict

\* requests.post(url, headers=headers, json=payload): the POST that goes out
post(variant) == [url |-> url, headers |-> headers, json |-> payload(variant)]

\* query_ensembl(variant) against a service that answers with outcome: the one
\* POST it issues, and the value it returns once requests.post has returned
\* or raised
query_ensembl(variant, outcome) ==
    [request |-> post(variant), result |-> QueryResult(outcome)]

-----------------------------------------------------------------------------
(* csv.writer *)

\* whether csv.writer (QUOTE_MINIMAL) quotes the field
NeedsQuote(s) ==
    \E i \in 1..Len(s) : SubSeq(s, i, i) \in {",", "\"", "\n", "\r"}

RECURSIVE DoubleQuotes(_)
\* every quote character doubled
DoubleQuotes(s) ==
    IF s = "" THEN ""
    ELSE (IF SubSeq(s, 1, 1) = "\"" THEN "\"\"" ELSE SubSeq(s, 1, 1))
         \o DoubleQuotes(SubSeq(s, 2, Len(s)))

\* one field as csv.writer writes it: None is the empty field, the rest str()
CsvField(v) ==
    LET text == IF v.t = "none" THEN "" ELSE PyStr(v)
    IN  IF NeedsQuote(text) THEN "\"" \o DoubleQuotes(text) \o "\"" ELSE text

RECURSIVE CsvFields(_)
\* the fields, each as written, with the delimiter between them
CsvFields(fields) ==
    IF Len(fields) = 0 THEN ""
    ELSE IF Len(fields) = 1 THEN CsvField(fields[1])
    ELSE CsvField(fields[1]) \o "," \o CsvFields(Tail(fields))

\* the record csv.writer builds: a row whose only field is empty is written
\* as a quoted empty field
CsvJoin(fields) ==
    IF Len(fields) = 1 /\ CsvFields(fields) = "" THEN "\"\"" ELSE CsvFields(fields)

\* writer.writerow(values): one line of the file
writerow(values) == CsvJoin(values) \o "\r\n"

-----------------------------------------------------------------------------
(* write_to_csv: csv.DictWriter over the column names *)

\* DictWriter.writeheader(): the column names as one line
writeheader == writerow([i \in 1..Len(fieldnames) |-> PStr(fieldnames[i])])

\* What DictWriter.writerow(rowdict) hands to the writer: a key that is no
\* column raises ValueError, a column that is no key is the empty string
DictRow(rowdict) ==
    IF rowdict.t # "dict" THEN Raise("AttributeError")
    ELSE IF \E key \in DOMAIN rowdict.d :
               \A i \in 1..Len(fieldnames) : fieldnames[i] # key
         THEN Raise("ValueError")
    ELSE PList([i \in 1..Len(fieldnames) |->
                   DictGet(rowdict.d, fieldnames[i], PStr(""))])

RECURSIVE DictRows(_)
\* for row in data: writer.writerow(row): the lines written up to the first
\* row that raises, and what it raised
DictRows(data) ==
    IF Len(data) = 0 THEN [lines |-> <<>>, raised |-> PNone]
    ELSE LET r == DictRow(Head(data))
         IN  IF IsRaise(r) THEN [lines |-> <<>>, raised |-> r]
             ELSE LET rest == DictRows(Tail(data))
                  IN  [lines |-> <<writerow(r.l)>> \o rest.lines,
                       raised |-> rest.raised]

\* write_to_csv(data, filename): the lines the file holds when the call
\* returns or raises, and the exception it raised (PNone when it returned)
write_to_csv(data) ==
    [content |-> <<writeheader>> \o DictRows(data).lines,
     raised |-> DictRows(data).raised]

-----------------------------------------------------------------------------
(* Inputs *)

\* The most records an input file holds
MaxRecords == 3

VCFRecord(chrom, pos, ref, alt) ==
    [CHROM |-> chrom, POS |-> pos, REF |-> ref, ALT |-> alt]

\* Decoded records: one allele, two alleles (multi-allelic), no allele
RecordDomain ==
    {VCFRecord("1", 1000000, "G", <<"A">>),
     VCFRecord("X", 1000, "A", <<"G", "T">>),
     VCFRecord("2", 0, "C", <<>>)}

InputFiles == UNION {[1..n -> RecordDomain] : n \in 0..MaxRecords}

\* The dict of those keys, in their order, whose option is present (<<v>>) and
\* not absent (<<>>)
Mapping(keys, opts) ==
    LET present == SelectSeq(keys, LAMBDA key : Len(opts[key]) > 0)
    IN  PDict([i \in 1..Len(present) |-> <<present[i], opts[present[i]][1]>>])

BodyConsequences ==
    PList(<<PDict(<<<<"gene_symbol", PStr("BRCA1")>>,
                    <<"consequence_terms",
                      PList(<<PStr("missense_variant"),
                              PStr("splice_region_variant")>>)>>>>)>>)

\* Parsed JSON bodies of the remote service
BodyAnnotated ==
    PDict(<<<<"id", PStr("COSV52")>>,
            <<"transcript_consequences", BodyConsequences>>>>)
BodyCounts ==
    PDict(<<<<"INFO", PDict(<<<<"DP", PInt(100)>>, <<"AO", PInt(25)>>>>)>>>>)
BodyTextCounts ==
    PDict(<<<<"INFO", PDict(<<<<"DP", PStr("100")>>, <<"AO", PStr("25")>>>>)>>>>)
BodyOverride == PDict(<<<<"alt", PStr("T")>>, <<"id", PStr("rs1")>>>>)
BodyError == PDict(<<<<"error", PStr("bad request")>>>>)
BodyList == PList(<<BodyAnnotated>>)

Response(status, json) == [kind |-> "response", status |-> status, json |-> json]

\* What the remote service may do with a request
ServiceOutcomes ==
    {[kind |-> "raise"],
     Response(200, BodyAnnotated), Response(200, BodyCounts),
     Response(200, BodyTextCounts), Response(200, BodyOverride),
     Response(200, BodyList), Response(200, Raise("JSONDecodeError")),
     Response(400, BodyError)}

\* whether the outcome is a failure: an exception or a status other than 200
Failed(outcome) == outcome.kind = "raise" \/ outcome.status # 200

NoFile == [exists |-> FALSE, content |-> <<>>]

NotHalted == [kind |-> "none"]

-----------------------------------------------------------------------------
(* main *)

Init ==
    /\ records \in InputFiles
    /\ idx = 0
    /\ pc = "loop"
    /\ record = PNone
    /\ vcf_data = PNone
    /\ ensembl_data = PNone
    /\ all_data = <<>>
    /\ requests = <<>>
    /\ responses = <<>>
    /\ pkl_file = NoFile
    /\ csv_file = NoFile
    /\ csv_pos = 0
    /\ halt = NotHalted
    /\ entry = PNone
    /\ row = PNone

\* an uncaught exception leaves main
Abort(e) ==
    /\ pc' = "halted"
    /\ halt' = [kind |-> "exception", error |-> e.e, at |-> pc]

\* for record in vcf_reader: the next record
NextRecord ==
    /\ pc = "loop"
    /\ idx < Len(records)
    /\ record' = records[idx + 1]
    /\ idx' = idx + 1
    /\ pc' = "parse"
    /\ UNCHANGED <<records, vcf_data, ensembl_data, all_data, requests, responses,
                   pkl_file, csv_file, csv_pos, halt, entry, row>>

\* The mutant of LoopEnd: the loop is left before the reader is exhausted
LoopEndEarly ==
    /\ pc = "loop"
    /\ pc' = "dump_open"
    /\ UNCHANGED <<records, idx, record, vcf_data, ensembl_data, all_data,
                   requests, responses, pkl_file, csv_file, csv_pos, halt,
                   entry, row>>

\* for record in vcf_reader: the reader is exhausted
LoopEnd ==
    /\ pc = "loop"
    /\ idx = Len(records)
    /\ pc' = "dump_open"
    /\ UNCHANGED <<records, idx, record, vcf_data, ensembl_data, all_data,
                   requests, responses, pkl_file, csv_file, csv_pos, halt,
                   entry, row>>

\* vcf_data = parse_vcf_entry(record)
ParseStep ==
    /\ pc = "parse"
    /\ LET v == parse_vcf_entry(record)
       IN  IF IsRaise(v)
           THEN Abort(v) /\ UNCHANGED vcf_data
           ELSE vcf_data' = v /\ pc' = "query" /\ UNCHANGED halt
    /\ UNCHANGED <<records, idx, record, ensembl_data, all_data, requests,
                   responses, pkl_file, csv_file, csv_pos, entry, row>>

\* whether a POST is out and requests.post has not yet returned or raised
InFlight == Len(requests) > Len(responses)

\* ensembl_data = query_ensembl(vcf_data), up to the POST: the request goes out
\* and the call waits for the service
QuerySend ==
    /\ pc = "query"
    /\ ~InFlight
    /\ requests' = Append(requests, post(vcf_data.d))
    /\ UNCHANGED <<records, idx, pc, record, vcf_data, ensembl_data, all_data,
                   responses, pkl_file, csv_file, csv_pos, halt, entry, row>>

\* ensembl_data = query_ensembl(vcf_data), from the POST on: requests.post
\* returns or raises, and query_ensembl returns
QueryAnswer ==
    /\ pc = "query"
    /\ InFlight
    /\ \E outcome \in ServiceOutcomes :
          LET q == query_ensembl(vcf_data.d, outcome)
          IN  /\ requests[Len(requests)] = q.request
              /\ responses' = Append(responses, outcome)
              /\ ensembl_data' = q.result
    /\ pc' = "merge"
    /\ UNCHANGED <<records, idx, record, vcf_data, all_data, requests, pkl_file,
                   csv_file, csv_pos, halt, entry, row>>

\* {**vcf_data, **ensembl_data}: a value that is no mapping raises TypeError
combined_data(v, e) ==
    IF e.t = "dict" THEN MergeDicts(v, e) ELSE Raise("TypeError")

\* The mutant of MergeStep: the entry is put in front of the list
MergeStepPrepend ==
    /\ pc = "merge"
    /\ LET c == combined_data(vcf_data, ensembl_data)
       IN  IF IsRaise(c)
           THEN Abort(c) /\ UNCHANGED all_data
           ELSE all_data' = <<c>> \o all_data /\ pc' = "loop" /\ UNCHANGED halt
    /\ UNCHANGED <<records, idx, record, vcf_data, ensembl_data, requests,
                   responses, pkl_file, csv_file, csv_pos, entry, row>>

\* combined_data = {**vcf_data, **ensembl_data}; all_data.append(combined_data)
MergeStep ==
    /\ pc = "merge"
    /\ LET c == combined_data(vcf_data, ensembl_data)
       IN  IF IsRaise(c)
           THEN Abort(c) /\ UNCHANGED all_data
           ELSE all_data' = Append(all_data, c) /\ pc' = "loop" /\ UNCHANGED halt
    /\ UNCHANGED <<records, idx, record, vcf_data, ensembl_data, requests,
                   responses, pkl_file, csv_file, csv_pos, entry, row>>

\* with open(output_pkl, 'wb') as pkl_file: the file is created empty
PklOpen ==
    /\ pc = "dump_open"
    /\ pkl_file' = [exists |-> TRUE, content |-> <<>>]
    /\ pc' = "dump"
    /\ UNCHANGED <<records, idx, record, vcf_data, ensembl_data, all_data,
                   requests, responses, csv_file, csv_pos, halt, entry, row>>

\* pickle.dump(all_data, pkl_file), and the file is closed
PklDump ==
    /\ pc = "dump"
    /\ pkl_file' = [exists |-> TRUE, content |-> all_data]
    /\ pc' = "csv_open"
    /\ UNCHANGED <<records, idx, record, vcf_data, ensembl_data, all_data,
                   requests, responses, csv_file, csv_pos, halt, entry, row>>

\* with open(output_csv, 'w', newline='') as csvfile: the file is created empty
CsvOpen ==
    /\ pc = "csv_open"
    /\ csv_file' = [exists |-> TRUE, content |-> <<>>]
    /\ pc' = "csv_header"
    /\ UNCHANGED <<records, idx, record, vcf_data, ensembl_data, all_data,
                   requests, responses, pkl_file, csv_pos, halt, entry, row>>

\* writer.writerow([...the 14 column names...])
CsvHeader ==
    /\ pc = "csv_header"
    /\ csv_file' = [csv_file EXCEPT !.content =
                       Append(@, writerow([i \in 1..Len(fieldnames) |->
                                              PStr(fieldnames[i])]))]
    /\ csv_pos' = 0
    /\ pc' = "csv_rows"
    /\ UNCHANGED <<records, idx, record, vcf_data, ensembl_data, all_data,
                   requests, responses, pkl_file, halt, entry, row>>

\* for entry in all_data: writer.writerow(extract_csv_fields(entry))
CsvRow ==
    /\ pc = "csv_rows"
    /\ csv_pos < Len(all_data)
    /\ LET r == extract_csv_fields(all_data[csv_pos + 1].d)
       IN  IF IsRaise(r)
           THEN Abort(r) /\ UNCHANGED <<csv_file, csv_pos>>
           ELSE /\ csv_file' = [csv_file EXCEPT !.content = Append(@, writerow(r.l))]
                /\ csv_pos' = csv_pos + 1
                /\ UNCHANGED <<pc, halt>>
    /\ UNCHANGED <<records, idx, record, vcf_data, ensembl_data, all_data,
                   requests, responses, pkl_file, entry, row>>

\* the final loop ends, the text file is closed, main prints and returns
CsvEnd ==
    /\ pc = "csv_rows"
    /\ csv_pos = Len(all_data)
    /\ pc' = "done"
    /\ UNCHANGED <<records, idx, record, vcf_data, ensembl_data, all_data,
                   requests, responses, pkl_file, csv_file, csv_pos, halt,
                   entry, row>>

\* the process is interrupted from outside (a signal, KeyboardInterrupt)
Interrupt ==
    /\ pc \notin {"done", "halted"}
    /\ pc' = "halted"
    /\ halt' = [kind |-> "interrupt", error |-> "KeyboardInterrupt", at |-> pc]
    /\ UNCHANGED <<records, idx, record, vcf_data, ensembl_data, all_data,
                   requests, responses, pkl_file, csv_file, csv_pos, entry, row>>

Next ==
    \/ NextRecord
    \/ LoopEnd
    \/ ParseStep
    \/ QuerySend
    \/ QueryAnswer
    \/ MergeStep
    \/ PklOpen
    \/ PklDump
    \/ CsvOpen
    \/ CsvHeader
    \/ CsvRow
    \/ CsvEnd
    \/ Interrupt

Spec == Init /\ [][Next]_vars

-----------------------------------------------------------------------------
(* extract_csv_fields on its own: one merged entry in, one row or exception out *)

DepthOptions ==
    {<<>>, <<PInt(0)>>, <<PInt(3)>>, <<PInt(8)>>, <<PInt(100)>>, <<PInt(160)>>,
     <<PStr("100")>>}

AltReadsOptions ==
    {<<>>, <<PInt(0)>>, <<PInt(1)>>, <<PInt(23)>>, <<PInt(25)>>, <<PStr("25")>>}

MinorAlleleOptions == {<<>>, <<PStr("T")>>}

\* INFO: absent, or a mapping with any of DP, AO, MA, MAF
InfoOptions ==
    {<<>>} \cup
    {<<Mapping(<<"DP", "AO", "MA", "MAF">>,
               [DP |-> d, AO |-> a, MA |-> m,
                MAF |-> IF m = <<>> THEN <<>> ELSE <<PStr("0.1")>>])>> :
        d \in DepthOptions, a \in AltReadsOptions, m \in MinorAlleleOptions}

ConsequencesOptions ==
    {<<>>, <<PList(<<>>)>>, <<PList(<<PDict(<<>>)>>)>>,
     <<PList(<<PDict(<<<<"gene_symbol", PStr("TP53")>>>>)>>)>>,
     <<PList(<<PDict(<<<<"consequence_terms",
                         PList(<<PStr("intron_variant")>>)>>>>),
              PDict(<<<<"gene_symbol", PStr("TP53")>>>>)>>)>>,
     <<PList(<<PDict(<<<<"consequence_terms",
                         PDict(<<<<"stop_gained", PInt(1)>>,
                                 <<"intron_variant", PInt(2)>>>>)>>>>)>>)>>,
     <<BodyConsequences>>}

IdOptions ==
    {<<>>, <<PStr("")>>, <<PStr("rs1")>>, <<PStr("COSV52")>>, <<PStr("rsCOSV")>>,
     <<PStr("COS")>>, <<PStr("cosv9")>>}

\* Merged entries (the mapping of each): a normalized variant and the keys of
\* an annotation
EntryDomain ==
    {MergeDicts(parse_vcf_entry(VCFRecord("1", 1000000, "G", <<"A">>)),
                Mapping(<<"INFO", "transcript_consequences", "id">>,
                        [INFO |-> i, transcript_consequences |-> c, id |-> d])).d :
        i \in InfoOptions, c \in ConsequencesOptions, d \in IdOptions}

ExtractInit ==
    /\ entry \in EntryDomain
    /\ row = PNone
    /\ pc = "extract"
    /\ records = <<>>
    /\ idx = 0
    /\ record = PNone
    /\ vcf_data = PNone
    /\ ensembl_data = PNone
    /\ all_data = <<>>
    /\ requests = <<>>
    /\ responses = <<>>
    /\ pkl_file = NoFile
    /\ csv_file = NoFile
    /\ csv_pos = 0
    /\ halt = NotHalted

\* row = extract_csv_fields(entry)
ExtractApply ==
    /\ pc = "extract"
    /\ row' = extract_csv_fields(entry)
    /\ pc' = "extracted"
    /\ UNCHANGED <<records, idx, record, vcf_data, ensembl_data, all_data,
                   requests, responses, pkl_file, csv_file, csv_pos, halt, entry>>

ExtractNext == ExtractApply

SpecExtract == ExtractInit /\ [][ExtractNext]_vars

-----------------------------------------------------------------------------
(* write_to_csv on its own: a list of merged entries in, a text file out *)

\* Merged entries: of a failed request, of an answer with an id only, of an
\* answer that overrides alt, of answers with keys that are no columns
WriteToCsvEntries ==
    {MergeDicts(parse_vcf_entry(VCFRecord("1", 1000000, "G", <<"A">>)), b) :
        b \in {EmptyDict, PDict(<<<<"id", PStr("COSV52")>>>>), BodyOverride,
               BodyCounts, BodyAnnotated}}

WriteToCsvInit ==
    /\ all_data \in UNION {[1..n -> WriteToCsvEntries] : n \in 0..MaxRecords}
    /\ pc = "w_open"
    /\ csv_file = NoFile
    /\ csv_pos = 0
    /\ halt = NotHalted
    /\ records = <<>>
    /\ idx = 0
    /\ record = PNone
    /\ vcf_data = PNone
    /\ ensembl_data = PNone
    /\ requests = <<>>
    /\ responses = <<>>
    /\ pkl_file = NoFile
    /\ entry = PNone
    /\ row = PNone

\* with open(filename, 'w', newline='') as csvfile: the file is created empty
WriteToCsvOpen ==
    /\ pc = "w_open"
    /\ csv_file' = [exists |-> TRUE, content |-> <<>>]
    /\ pc' = "w_header"
    /\ UNCHANGED <<records, idx, record, vcf_data, ensembl_data, all_data,
                   requests, responses, pkl_file, csv_pos, halt, entry, row>>

\* writer.writeheader()
WriteToCsvHeader ==
    /\ pc = "w_header"
    /\ csv_file' = [csv_file EXCEPT !.content = Append(@, writeheader)]
    /\ csv_pos' = 0
    /\ pc' = "w_rows"
    /\ UNCHANGED <<records, idx, record, vcf_data, ensembl_data, all_data,
                   requests, responses, pkl_file, halt, entry, row>>

\* for row in data: writer.writerow(row)
WriteToCsvRow ==
    /\ pc = "w_rows"
    /\ csv_pos < Len(all_data)
    /\ LET r == DictRow(all_data[csv_pos + 1])
       IN  IF IsRaise(r)
           THEN Abort(r) /\ UNCHANGED <<csv_file, csv_pos>>
           ELSE /\ csv_file' = [csv_file EXCEPT !.content = Append(@, writerow(r.l))]
                /\ csv_pos' = csv_pos + 1
                /\ UNCHANGED <<pc, halt>>
    /\ UNCHANGED <<records, idx, record, vcf_data, ensembl_data, all_data,
                   requests, responses, pkl_file, entry, row>>

\* the loop ends, the file is closed, write_to_csv returns
WriteToCsvEnd ==
    /\ pc = "w_rows"
    /\ csv_pos = Len(all_data)
    /\ pc' = "w_done"
    /\ UNCHANGED <<records, idx, record, vcf_data, ensembl_data, all_data,
                   requests, responses, pkl_file, csv_file, csv_pos, halt,
                   entry, row>>

WriteToCsvNext ==
    \/ WriteToCsvOpen
    \/ WriteToCsvHeader
    \/ WriteToCsvRow
    \/ WriteToCsvEnd

SpecWriteToCsv == WriteToCsvInit /\ [][WriteToCsvNext]_vars

-----------------------------------------------------------------------------
(* What the claims speak of, stated on the inputs and outputs *)

LoopPositions == {"loop", "parse", "query", "merge"}

VariantKeys == {"chrom", "pos", "ref", "alt"}

\* The notation string of a decoded record: chrom, position plus one, ref, first alt
RecordNotation(r) ==
    r.CHROM \o ":" \o ToString(r.POS + 1) \o ":" \o r.REF \o ":" \o r.ALT[1]

\* The annotation the service delivered: its body on a 200 answer with a JSON
\* mapping as body, nothing on a failure
Delivered(outcome) ==
    IF Failed(outcome) \/ IsRaise(outcome.json) \/ outcome.json.t # "dict"
    THEN <<>> ELSE outcome.json.d

\* entry e is the merged entry of record r and service outcome o
EntryOf(e, r, o) ==
    /\ e.t = "dict"
    /\ DOMAIN e.d = VariantKeys \cup DOMAIN Delivered(o)
    /\ \A k \in DOMAIN Delivered(o) : e.d[k] = Delivered(o)[k]
    /\ "chrom" \notin DOMAIN Delivered(o) => e.d["chrom"] = PStr(r.CHROM)
    /\ "pos" \notin DOMAIN Delivered(o) => e.d["pos"] = PInt(r.POS)
    /\ "ref" \notin DOMAIN Delivered(o) => e.d["ref"] = PStr(r.REF)
    /\ "alt" \notin DOMAIN Delivered(o) => e.d["alt"] = PStr(r.ALT[1])

HeaderLine ==
    "chrom,pos,ref,alt,depth,alt_reads,percent_alt_reads,percent_ref_reads,"
    \o "gene,variant_effect,minor_allele,minor_allele_frequency,somatic,id\r\n"

\* the text file holds the header and then one line per entry of es, in order
RowsOf(lines, es) ==
    /\ Len(lines) = Len(es) + 1
    /\ lines[1] = HeaderLine
    /\ \A i \in 1..Len(es) :
          LET r == extract_csv_fields(es[i].d)
          IN  ~IsRaise(r) /\ lines[i + 1] = writerow(r.l)

\* whether the INFO mapping of entry e holds key
HasInfo(e, key) == "INFO" \in DOMAIN e /\ key \in DOMAIN e["INFO"].d

\* whether key of INFO is present and truthy: a non-zero number, a non-empty text
PresentAndTruthy(e, key) ==
    /\ HasInfo(e, key)
    /\ e["INFO"].d[key] \notin {PInt(0), PStr("")}

\* whether the id of entry e holds the four letters COSV in a row
IdHasCOSV(e) ==
    /\ "id" \in DOMAIN e
    /\ \E i \in 1..(Len(e["id"].s) - 3) : SubSeq(e["id"].s, i, i + 3) = "COSV"

\* the value of a column of an extracted row
Column(r, name) ==
    r.l[CHOOSE i \in 1..Len(fieldnames) : fieldnames[i] = name]

-----------------------------------------------------------------------------
(* Claims *)

\* C1: End-to-end: after main runs to completion on a file of N records, the
\* dump holds exactly N entries and the text file N+1 lines (the header, then
\* N rows); the i-th entry is the merged entry of the i-th record and the
\* i-th data row is the projection of that entry.
C1_EndToEnd ==
    pc = "done" =>
        /\ Len(pkl_file.content) = Len(records)
        /\ Len(csv_file.content) = Len(records) + 1
        /\ csv_file.content[1] = HeaderLine
        /\ \A i \in 1..Len(records) :
              /\ EntryOf(pkl_file.content[i], records[i], responses[i])
              /\ csv_file.content[i + 1] =
                     writerow(extract_csv_fields(pkl_file.content[i].d).l)

\* C1 witness: a completed run on two different records
C1_Witness ==
    /\ pc = "done"
    /\ Len(records) = 2
    /\ records[1] # records[2]
    /\ responses[1] = Response(200, BodyAnnotated)

\* C2: when the service answers with a status other than 200 or the call
\* raises, query_ensembl returns the empty mapping, and main's next step
\* appends the record's entry and returns to the loop: it does not abort.
C2_FailureDegrades ==
    [][/\ (pc = "query" /\ pc' = "merge" /\ Failed(responses'[Len(responses')]))
            => ensembl_data' = EmptyDict
       /\ (pc = "merge" /\ Failed(responses[Len(responses)])
              /\ halt'.kind # "interrupt")
            => /\ pc' = "loop"
               /\ halt' = NotHalted
               /\ Len(all_data') = Len(all_data) + 1
               /\ EntryOf(all_data'[Len(all_data')], record,
                          responses[Len(responses)])
               /\ DOMAIN all_data'[Len(all_data')].d = VariantKeys]_vars

\* C2 witness: the first request failed and the loop took the second record
C2_Witness ==
    /\ pc = "parse"
    /\ idx = 2
    /\ Len(all_data) = 1
    /\ Failed(responses[1])

\* C3: when the service answers with status 200 and a parsed JSON body B,
\* query_ensembl returns exactly B.
C3_BodyUnchanged ==
    (/\ pc = "merge"
     /\ responses[Len(responses)].kind = "response"
     /\ responses[Len(responses)].status = 200
     /\ ~IsRaise(responses[Len(responses)].json))
        => ensembl_data = responses[Len(responses)].json

\* C3 witness: a 200 answer with a body of two keys has been returned
C3_Witness ==
    /\ pc = "merge"
    /\ responses[Len(responses)] = Response(200, BodyAnnotated)
    /\ DOMAIN ensembl_data.d = {"id", "transcript_consequences"}

\* C4: for a merged entry whose INFO is {'DP': '100', 'AO': '25'},
\* extract_csv_fields returns a row with percent_alt_reads "25.0" and
\* percent_ref_reads "75.0".
C4_TextCounts ==
    (/\ pc = "extracted"
     /\ "INFO" \in DOMAIN entry
     /\ entry["INFO"].d = [DP |-> PStr("100"), AO |-> PStr("25")])
        => /\ row.t = "list"
           /\ Column(row, "percent_alt_reads") = PStr("25.0")
           /\ Column(row, "percent_ref_reads") = PStr("75.0")

\* C5: for a record with at least one alternate allele, parse_vcf_entry
\* returns a mapping with exactly the keys chrom, pos, ref, alt, where alt is
\* ALT[0] and chrom, pos, ref are the record's.
C5_FirstAlt ==
    /\ (pc \in {"query", "merge"}) =>
          /\ vcf_data.t = "dict"
          /\ DOMAIN vcf_data.d = VariantKeys
          /\ vcf_data.d["alt"] = PStr(record.ALT[1])
          /\ vcf_data.d["chrom"] = PStr(record.CHROM)
          /\ vcf_data.d["pos"] = PInt(record.POS)
          /\ vcf_data.d["ref"] = PStr(record.REF)
    /\ (pc = "halted" /\ halt.at = "parse" /\ halt.kind = "exception")
          => Len(record.ALT) = 0

\* C5 witness: a record with two alternate alleles has been normalized
C5_Witness ==
    /\ pc = "query"
    /\ Len(record.ALT) = 2
    /\ record.ALT[1] # record.ALT[2]

\* C6: the somatic column of the row extract_csv_fields returns is "1"
\* exactly when the entry's id holds the substring "COSV", and "" otherwise,
\* also when the entry has no id.
C6_Somatic ==
    (pc = "extracted" /\ row.t = "list") =>
        Column(row, "somatic") = IF IdHasCOSV(entry) THEN PStr("1") ELSE PStr("")

\* C6 witness: an id with COSV inside it, not at its start, gave "1"
C6_Witness ==
    /\ pc = "extracted"
    /\ row.t = "list"
    /\ "id" \in DOMAIN entry
    /\ entry["id"] = PStr("rsCOSV")
    /\ Column(row, "somatic") = PStr("1")

\* C7: one POST per record, in record order: the i-th request carries
\* {"variants": [s]} with s the notation of the i-th record, its position
\* incremented by one ("1:1000001:G:A" for position 1000000), and a request
\* that failed is not sent again: there are as many requests as answers, and
\* one more only while the last one waits for its answer.
C7_OneRequestPerRecord ==
    /\ Len(responses) = IF pc \in {"parse", "query"} THEN idx - 1
                        ELSE IF pc = "halted" /\ halt.at \in {"parse", "query"}
                             THEN idx - 1
                        ELSE idx
    /\ Len(requests) \in {Len(responses), Len(responses) + 1}
    /\ InFlight => pc = "query" \/ (pc = "halted" /\ halt.at = "query")
    /\ pc \notin LoopPositions /\ (pc = "halted" => halt.at \notin LoopPositions)
          => Len(requests) = Len(records)
    /\ \A i \in 1..Len(requests) :
          /\ requests[i].url = url
          /\ requests[i].json =
                 PDict(<<<<"variants",
                           PList(<<PStr(RecordNotation(records[i]))>>)>>>>)
          /\ records[i] = VCFRecord("1", 1000000, "G", <<"A">>)
                => requests[i].json.d["variants"].l[1].s = "1:1000001:G:A"

\* C7 witness: a completed run whose first request, for position 1000000, failed
C7_Witness ==
    /\ pc = "done"
    /\ Len(requests) = 2
    /\ records[1] = VCFRecord("1", 1000000, "G", <<"A">>)
    /\ Failed(responses[1])

\* C8: no output file exists before the loop has taken and processed the
\* last record, so a run that is interrupted or aborts within the loop leaves
\* no output; a run that completes leaves the dump and the text file
\* describing the same entries in the same order.
C8_OutputsAfterLoop ==
    /\ (pkl_file.exists \/ csv_file.exists) =>
          /\ idx = Len(records)
          /\ Len(all_data) = Len(records)
          /\ pc \notin LoopPositions
    /\ (pc = "halted" /\ halt.at \in LoopPositions) =>
          ~pkl_file.exists /\ ~csv_file.exists
    /\ pc = "done" =>
          /\ pkl_file.exists /\ csv_file.exists
          /\ pkl_file.content = all_data
          /\ RowsOf(csv_file.content, pkl_file.content)

\* C8 witness: the run aborted on a second record without alternate alleles
C8_Witness ==
    /\ pc = "halted"
    /\ halt.kind = "exception"
    /\ halt.at = "parse"
    /\ Len(all_data) = 1
    /\ Len(record.ALT) = 0
    /\ ~pkl_file.exists /\ ~csv_file.exists

\* C9: whichever annotation fields are missing, extract_csv_fields raises
\* nothing and returns a row of 14 values in which every column whose source
\* field is missing is the empty string.
C9_MissingFields ==
    pc = "extracted" =>
        /\ row.t = "list"
        /\ Len(row.l) = 14
        /\ ~HasInfo(entry, "DP") => Column(row, "depth") = PStr("")
        /\ ~HasInfo(entry, "AO") => Column(row, "alt_reads") = PStr("")
        /\ ~HasInfo(entry, "MA") => Column(row, "minor_allele") = PStr("")
        /\ ~HasInfo(entry, "MAF") => Column(row, "minor_allele_frequency") = PStr("")
        /\ "transcript_consequences" \notin DOMAIN entry
              => Column(row, "gene") = PStr("") /\ Column(row, "variant_effect") = PStr("")
        /\ "id" \notin DOMAIN entry
              => Column(row, "id") = PStr("") /\ Column(row, "somatic") = PStr("")

\* C10: the percentage columns of the row are empty unless DP and AO are
\* both present and truthy, and extract_csv_fields never divides by zero.
C10_PercentGated ==
    pc = "extracted" =>
        /\ row # Raise("ZeroDivisionError")
        /\ (row.t = "list"
              /\ ~(PresentAndTruthy(entry, "DP") /\ PresentAndTruthy(entry, "AO")))
            => /\ Column(row, "percent_alt_reads") = PStr("")
               /\ Column(row, "percent_ref_reads") = PStr("")

\* C10 witness: a depth of zero with alt reads present gave a row with
\* empty percentages
C10_Witness ==
    /\ pc = "extracted"
    /\ row.t = "list"
    /\ HasInfo(entry, "DP") /\ entry["INFO"].d["DP"] = PInt(0)
    /\ HasInfo(entry, "AO") /\ entry["INFO"].d["AO"] = PInt(25)
    /\ Column(row, "percent_alt_reads") = PStr("")

====
